---- MODULE Spec2Model ----
(***************************************************************************)
(* Scoring engine of the sketch-accuracy game                               *)
(* (src/server/src/scoring/engine.ts, weights in src/unnamed/part_008).     *)
(*                                                                          *)
(* computeScore is modelled as a state machine over a family of drawings.   *)
(* JavaScript numbers are modelled as exact rationals (arbitrary-precision  *)
(* numerator and denominator), so that every threshold comparison, ratio    *)
(* and rounding of the engine is computed rather than assumed.              *)
(***************************************************************************)
EXTENDS Integers, Sequences, FiniteSets, TLC

(***************************************************************************)
(* Arbitrary-precision naturals: little-endian sequences of limbs in base   *)
(* 10^4 without leading zero limbs (zero is the empty sequence).  TLC's     *)
(* integers are 32 bits wide; the engine's intermediate values are not.     *)
(***************************************************************************)
LimbBase == 100 * 100

Limb(a, i) == IF i <= Len(a) THEN a[i] ELSE 0

\* a without its leading zero limbs
NNorm(a) ==
  IF a = <<>> THEN a
  ELSE IF a[Len(a)] # 0 THEN a
  ELSE LET nonzero == {i \in 1 .. Len(a) : a[i] # 0}
       IN  IF nonzero = {} THEN <<>>
           ELSE SubSeq(a, 1, CHOOSE m \in nonzero : \A i \in nonzero : i <= m)

RECURSIVE NFromInt(_)
NFromInt(n) ==
  IF n = 0 THEN <<>> ELSE <<n % LimbBase>> \o NFromInt(n \div LimbBase)

\* a + b.  The carry into limb i is 1 exactly when some lower limb sum
\* overflows and every limb sum between it and i is LimbBase - 1.
NAdd(a, b) ==
  LET n == IF Len(a) > Len(b) THEN Len(a) ELSE Len(b)
      s == [i \in 1 .. n |-> Limb(a, i) + Limb(b, i)]
      carry(i) ==
        /\ i > 1
        /\ \/ s[i - 1] >= LimbBase
           \/ /\ s[i - 1] = LimbBase - 1
              /\ \E j \in 1 .. i - 2 :
                   /\ s[j] >= LimbBase
                   /\ \A k \in j + 1 .. i - 2 : s[k] = LimbBase - 1
  IN  NNorm([i \in 1 .. n + 1 |->
               ((IF i <= n THEN s[i] ELSE 0) + (IF carry(i) THEN 1 ELSE 0))
                 % LimbBase])

\* a - b for a >= b, with the borrow computed as the carry of NAdd
NSub(a, b) ==
  LET borrow(i) ==
        /\ i > 1
        /\ \/ a[i - 1] < Limb(b, i - 1)
           \/ /\ a[i - 1] = Limb(b, i - 1)
              /\ \E j \in 1 .. i - 2 :
                   /\ a[j] < Limb(b, j)
                   /\ \A k \in j + 1 .. i - 2 : a[k] = Limb(b, k)
  IN  NNorm([i \in 1 .. Len(a) |->
               (a[i] - Limb(b, i) - (IF borrow(i) THEN 1 ELSE 0) + LimbBase)
                 % LimbBase])

\* -1, 0, 1 as a < b, a = b, a > b
NCmp(a, b) ==
  IF Len(a) < Len(b) THEN -1
  ELSE IF Len(a) > Len(b) THEN 1
  ELSE IF a = b THEN 0
  ELSE IF \E i \in 1 .. Len(a) :
            a[i] < b[i] /\ \A k \in i + 1 .. Len(a) : a[k] = b[k]
       THEN -1
  ELSE 1

\* a * k for a limb k: the low halves of the limb products plus their high
\* halves one limb up
NMulLimb(a, k) ==
  IF k = 0 \/ a = <<>> THEN <<>>
  ELSE NAdd([i \in 1 .. Len(a) |-> (a[i] * k) % LimbBase],
            <<0>> \o [i \in 1 .. Len(a) |-> (a[i] * k) \div LimbBase])

\* a * b[lo .. hi] * LimbBase^(lo - 1), by halving the range
RECURSIVE NMulRange(_, _, _, _)
NMulRange(a, b, lo, hi) ==
  IF lo = hi
  THEN LET part == NMulLimb(a, b[lo])
       IN  IF part = <<>> THEN <<>> ELSE [i \in 1 .. lo - 1 |-> 0] \o part
  ELSE LET mid == (lo + hi) \div 2
       IN  NAdd(NMulRange(a, b, lo, mid), NMulRange(a, b, mid + 1, hi))

NMul(a, b) ==
  IF a = <<>> \/ b = <<>> THEN <<>> ELSE NMulRange(a, b, 1, Len(b))

(***************************************************************************)
(* Signed integers and rationals over them.  A rational with denominator   *)
(* zero is what a JavaScript division by zero produces (NaN or Infinity).   *)
(***************************************************************************)
ZOf(negative, magnitude) ==
  [neg |-> negative /\ magnitude # <<>>, mag |-> magnitude]

ZInt(n) == IF n < 0 THEN ZOf(TRUE, NFromInt(0 - n)) ELSE ZOf(FALSE, NFromInt(n))

ZNeg(a) == ZOf(~a.neg, a.mag)

ZAdd(a, b) ==
  IF a.neg = b.neg THEN ZOf(a.neg, NAdd(a.mag, b.mag))
  ELSE IF NCmp(a.mag, b.mag) >= 0 THEN ZOf(a.neg, NSub(a.mag, b.mag))
  ELSE ZOf(b.neg, NSub(b.mag, a.mag))

ZSub(a, b) == ZAdd(a, ZNeg(b))

ZMul(a, b) == ZOf(a.neg # b.neg, NMul(a.mag, b.mag))

ZCmp(a, b) ==
  IF a.neg /\ ~b.neg THEN -1
  ELSE IF ~a.neg /\ b.neg THEN 1
  ELSE IF a.neg THEN NCmp(b.mag, a.mag)
  ELSE NCmp(a.mag, b.mag)

\* the rational n / d, written 0/1 when it is zero and (+-)1/1 when the
\* numerator's magnitude is the denominator; other fractions are kept as
\* they come, not reduced
QOf(n, d) ==
  IF d = <<>> THEN [num |-> n, den |-> d]
  ELSE IF n.mag = <<>> THEN [num |-> n, den |-> <<1>>]
  ELSE IF n.mag = d THEN [num |-> [neg |-> n.neg, mag |-> <<1>>], den |-> <<1>>]
  ELSE [num |-> n, den |-> d]

\* the rational a / b of two machine integers, b > 0
QFrac(a, b) == QOf(ZInt(a), NFromInt(b))

QInt(a) == QFrac(a, 1)

IsFinite(q) == q.den # <<>>

QAdd(p, q) ==
  IF p.den = q.den THEN QOf(ZAdd(p.num, q.num), p.den)
  ELSE QOf(ZAdd(ZMul(p.num, ZOf(FALSE, q.den)), ZMul(q.num, ZOf(FALSE, p.den))),
           NMul(p.den, q.den))

QNeg(p) == QOf(ZNeg(p.num), p.den)

QSub(p, q) == QAdd(p, QNeg(q))

QMul(p, q) == QOf(ZMul(p.num, q.num), NMul(p.den, q.den))

\* p / q; the sign of q moves to the numerator, q = 0 leaves denominator
\* zero; equal denominators cancel
QDiv(p, q) ==
  IF p.den = q.den /\ p.den # <<>>
  THEN QOf(ZOf(p.num.neg # q.num.neg, p.num.mag), q.num.mag)
  ELSE QOf(ZOf(p.num.neg # q.num.neg, NMul(p.num.mag, q.den)),
           NMul(p.den, q.num.mag))

QCmp(p, q) ==
  IF p.den = q.den /\ p.den # <<>> THEN ZCmp(p.num, q.num)
  ELSE ZCmp(ZMul(p.num, ZOf(FALSE, q.den)), ZMul(q.num, ZOf(FALSE, p.den)))

QLt(p, q) == QCmp(p, q) < 0
QLe(p, q) == QCmp(p, q) <= 0
QGt(p, q) == QCmp(p, q) > 0
QEq(p, q) == QCmp(p, q) = 0
QIsZero(p) == p.num.mag = <<>>

QMax(p, q) == IF QLt(p, q) THEN q ELSE p
QMin(p, q) == IF QLt(q, p) THEN q ELSE p

\* Math.round of a non-negative number known to be at most hi:
\* the largest k in lo..hi with k <= p + 1/2, found by bisection
RECURSIVE RoundBetween(_, _, _)
RoundBetween(p, lo, hi) ==
  IF lo >= hi THEN lo
  ELSE LET mid == (lo + hi + 1) \div 2
       IN  IF QLe(QFrac(2 * mid - 1, 2), p)
           THEN RoundBetween(p, mid, hi)
           ELSE RoundBetween(p, lo, mid - 1)

\* Math.round of a non-negative number
RECURSIVE RoundCeiling(_, _)
RoundCeiling(p, hi) == IF QLt(p, QInt(hi)) THEN hi ELSE RoundCeiling(p, 2 * hi)

MathRound(p) == RoundBetween(p, 0, RoundCeiling(p, 1))

(***************************************************************************)
(* Buffers.  A number[][] or boolean[][] of h rows and w columns is a       *)
(* function on 0..h-1 whose values are functions on 0..w-1, indexed         *)
(* buf[y][x] as in the source.  Grayscale samples are integers here: the    *)
(* drawings are achromatic, for which 0.299 r + 0.587 g + 0.114 b is the    *)
(* common channel value.                                                    *)
(***************************************************************************)
Height(buf) == Cardinality(DOMAIN buf)
Width(buf) == Cardinality(DOMAIN buf[0])

Pixels(buf) == (0 .. Width(buf) - 1) \X (0 .. Height(buf) - 1)

\* the <<x, y>> positions where a boolean buffer is true
TruePixels(bin) == {p \in Pixels(bin) : bin[p[2]][p[1]]}

DARK_LEVEL == 200

\* number of samples below the ink threshold in the window of the given
\* size whose top-left corner is <<x0, y0>>
DarkCount(gray, x0, y0, wd, ht) ==
  Cardinality({p \in (0 .. wd - 1) \X (0 .. ht - 1) :
                 gray[y0 + p[2]][x0 + p[1]] < DARK_LEVEL})

MinInt(a, b) == IF a < b THEN a ELSE b

\* Edge strength of the 3x3 gradient operator.  The buffer holds the SQUARE
\* of the strength min(255, sqrt(gx^2 + gy^2)), which is an integer; the
\* only reader, binarize, compares it with the square of its threshold.
sobelEdge(gray) ==
  LET h == Height(gray)
      w == Width(gray)
  IN  [y \in 0 .. h - 1 |-> [x \in 0 .. w - 1 |->
        IF y >= 1 /\ y < h - 1 /\ x >= 1 /\ x < w - 1
        THEN LET gx == (0 - gray[y - 1][x - 1]) + gray[y - 1][x + 1]
                       + (0 - 2 * gray[y][x - 1]) + 2 * gray[y][x + 1]
                       + (0 - gray[y + 1][x - 1]) + gray[y + 1][x + 1]
                 gy == (0 - gray[y - 1][x - 1]) - 2 * gray[y - 1][x] - gray[y - 1][x + 1]
                       + gray[y + 1][x - 1] + 2 * gray[y + 1][x] + gray[y + 1][x + 1]
             IN  MinInt(255 * 255, gx * gx + gy * gy)
        ELSE 0]]

EDGE_THRESHOLD == 30

\* data holds squared strengths (see sobelEdge): v > threshold
binarize(data, threshold) ==
  [y \in DOMAIN data |-> [x \in DOMAIN data[y] |->
     data[y][x] > threshold * threshold]]

(***************************************************************************)
(* contourF1                                                                *)
(***************************************************************************)
CONTOUR_TOLERANCE == 3

\* RefHits with the window's first row and column left out
RefHitsNarrow(ref, x, y, tolerance) ==
  {d \in (1 - tolerance .. tolerance) \X (1 - tolerance .. tolerance) :
     /\ y + d[1] >= 0 /\ y + d[1] < Height(ref)
     /\ x + d[2] >= 0 /\ x + d[2] < Width(ref)
     /\ ref[y + d[1]][x + d[2]]}

\* the offsets <<dy, dx>> of the tolerance window around <<x, y>> that fall
\* inside the buffer on a reference edge pixel
RefHits(ref, x, y, tolerance) ==
  {d \in (0 - tolerance .. tolerance) \X (0 - tolerance .. tolerance) :
     /\ y + d[1] >= 0 /\ y + d[1] < Height(ref)
     /\ x + d[2] >= 0 /\ x + d[2] < Width(ref)
     /\ ref[y + d[1]][x + d[2]]}

\* the two nested loops over dy, dx stop at the first hit: the hit with the
\* least dy and, for that dy, the least dx
FirstHit(hits) ==
  CHOOSE d \in hits :
    \A e \in hits : d[1] < e[1] \/ (d[1] = e[1] /\ d[2] <= e[2])

\* the reference pixels added to matchedRef: one per matched sketch pixel
MatchedRef(ref, sketch, tolerance) ==
  {<<p[1] + FirstHit(RefHits(ref, p[1], p[2], tolerance))[2],
     p[2] + FirstHit(RefHits(ref, p[1], p[2], tolerance))[1]>> :
     p \in {q \in TruePixels(sketch) :
              RefHits(ref, q[1], q[2], tolerance) # {}}}

contourF1(ref, sketch, tolerance) ==
  LET refEdgeCount == Cardinality(TruePixels(ref))
      sketchEdgeCount == Cardinality(TruePixels(sketch))
      sketchMatchCount ==
        Cardinality({q \in TruePixels(sketch) :
                       RefHits(ref, q[1], q[2], tolerance) # {}})
      refMatchCount == Cardinality(MatchedRef(ref, sketch, tolerance))
      precision == IF sketchEdgeCount = 0 THEN QInt(0)
                   ELSE QDiv(QInt(sketchMatchCount), QInt(sketchEdgeCount))
      recall == IF refEdgeCount = 0 THEN QInt(1)
                ELSE QDiv(QInt(refMatchCount), QInt(refEdgeCount))
      f1 == IF QIsZero(QAdd(precision, recall)) THEN QInt(0)
            ELSE QDiv(QMul(QMul(QInt(2), precision), recall),
                      QAdd(precision, recall))
  IN  [precision |-> precision, recall |-> recall, f1 |-> f1]


(***************************************************************************)
(* inkDensityPenalty                                                        *)
(***************************************************************************)
\* inkDensityPenalty with the 30% breakpoint tested before the 40% one
inkDensityPenaltyReordered(ref, sketch) ==
  LET h == Height(ref)
      w == Width(ref)
      total == h * w
      refDark == DarkCount(ref, 0, 0, w, h)
      sketchDark == DarkCount(sketch, 0, 0, w, h)
      refRatio == QDiv(QInt(refDark), QInt(total))
      sketchRatio == QDiv(QInt(sketchDark), QInt(total))
      excessRatio == QDiv(sketchRatio, QMax(refRatio, QFrac(1, 100)))
  IN  IF QLe(sketchRatio, QMul(refRatio, QFrac(12, 10))) THEN QInt(1)
      ELSE IF QGt(sketchRatio, QFrac(6, 10)) THEN QFrac(5, 100)
      ELSE IF QGt(sketchRatio, QFrac(3, 10)) THEN QFrac(3, 10)
      ELSE IF QGt(sketchRatio, QFrac(4, 10)) THEN QFrac(15, 100)
      ELSE IF QGt(excessRatio, QInt(5)) THEN QFrac(15, 100)
      ELSE IF QGt(excessRatio, QInt(3)) THEN QFrac(35, 100)
      ELSE IF QGt(excessRatio, QInt(2)) THEN QFrac(55, 100)
      ELSE QMax(QFrac(4, 10),
                QSub(QInt(1),
                     QMul(QSub(excessRatio, QFrac(12, 10)), QFrac(4, 10))))

inkDensityPenalty(ref, sketch) ==
  LET h == Height(ref)
      w == Width(ref)
      total == h * w
      refDark == DarkCount(ref, 0, 0, w, h)
      sketchDark == DarkCount(sketch, 0, 0, w, h)
      refRatio == QDiv(QInt(refDark), QInt(total))
      sketchRatio == QDiv(QInt(sketchDark), QInt(total))
      excessRatio == QDiv(sketchRatio, QMax(refRatio, QFrac(1, 100)))
  IN  IF QLe(sketchRatio, QMul(refRatio, QFrac(12, 10))) THEN QInt(1)
      ELSE IF QGt(sketchRatio, QFrac(6, 10)) THEN QFrac(5, 100)
      ELSE IF QGt(sketchRatio, QFrac(4, 10)) THEN QFrac(15, 100)
      ELSE IF QGt(sketchRatio, QFrac(3, 10)) THEN QFrac(3, 10)
      ELSE IF QGt(excessRatio, QInt(5)) THEN QFrac(15, 100)
      ELSE IF QGt(excessRatio, QInt(3)) THEN QFrac(35, 100)
      ELSE IF QGt(excessRatio, QInt(2)) THEN QFrac(55, 100)
      ELSE QMax(QFrac(4, 10),
                QSub(QInt(1),
                     QMul(QSub(excessRatio, QFrac(12, 10)), QFrac(4, 10))))

(***************************************************************************)
(* spatialExtraPenalty                                                      *)
(***************************************************************************)
SPATIAL_PATCH == 32

\* for (y = 0; y + patchSize <= h; y += patchSize), likewise x
SpatialPatches(h, w, patchSize) ==
  {p \in (0 .. w) \X (0 .. h) :
     /\ p[1] % patchSize = 0 /\ p[1] + patchSize <= w
     /\ p[2] % patchSize = 0 /\ p[2] + patchSize <= h}

\* the patch at <<x, y>> counts as extra
IsExtraPatch(ref, sketch, x, y, patchSize) ==
  LET n == patchSize * patchSize
      refInkRatio == QDiv(QInt(DarkCount(ref, x, y, patchSize, patchSize)), QInt(n))
      sketchInkRatio == QDiv(QInt(DarkCount(sketch, x, y, patchSize, patchSize)), QInt(n))
  IN  QLt(refInkRatio, QFrac(2, 100)) /\ QGt(sketchInkRatio, QFrac(5, 100))

\* spatialExtraPenalty with the loop bounds of localSimilarity
\* (y + patchSize < h, x + patchSize < w)
spatialExtraPenaltyStrict(ref, sketch, patchSize) ==
  LET h == Height(ref)
      w == Width(ref)
      patches == {p \in SpatialPatches(h, w, patchSize) :
                    p[1] + patchSize < w /\ p[2] + patchSize < h}
      totalPatches == Cardinality(patches)
      extraPatches ==
        Cardinality({p \in patches :
                       IsExtraPatch(ref, sketch, p[1], p[2], patchSize)})
      extraRatio == QDiv(QInt(extraPatches), QInt(totalPatches))
  IN  IF totalPatches = 0 THEN QInt(1)
      ELSE QMax(QFrac(7, 10), QSub(QInt(1), QMul(extraRatio, QFrac(15, 10))))

spatialExtraPenalty(ref, sketch, patchSize) ==
  LET patches == SpatialPatches(Height(ref), Width(ref), patchSize)
      totalPatches == Cardinality(patches)
      extraPatches ==
        Cardinality({p \in patches :
                       IsExtraPatch(ref, sketch, p[1], p[2], patchSize)})
      extraRatio == QDiv(QInt(extraPatches), QInt(totalPatches))
  IN  IF totalPatches = 0 THEN QInt(1)
      ELSE QMax(QFrac(7, 10), QSub(QInt(1), QMul(extraRatio, QFrac(15, 10))))

(***************************************************************************)
(* detectKeypoints, keypointMatchScore                                      *)
(***************************************************************************)
MAX_POINTS == 200

\* for (y = 2; y < h - 2; y += 3), likewise x: candidates in scan order
\* (rows outermost) are numbered y * w + x
KeypointCandidates(h, w) ==
  {p \in (0 .. w - 1) \X (0 .. h - 1) :
     /\ p[1] >= 2 /\ p[1] < w - 2 /\ (p[1] - 2) % 3 = 0
     /\ p[2] >= 2 /\ p[2] < h - 2 /\ (p[2] - 2) % 3 = 0}

\* the nine offsets <<dx, dy>> of the 3x3 window
Window3 == (0 - 1 .. 1) \X (0 - 1 .. 1)

\* sum of a term over the 3x3 window
RECURSIVE SumOver(_, _)
SumOver(S, f) ==
  IF S = {} THEN 0
  ELSE LET e == CHOOSE e \in S : TRUE
       IN  f[e] + SumOver(S \ {e}, f)

\* Harris response r = det - 0.04 * trace * trace at <<x, y>>
CornerResponse(gray, x, y) ==
  LET ix == [d \in Window3 |->
               gray[y + d[2]][x + d[1] + 1] - gray[y + d[2]][x + d[1] - 1]]
      iy == [d \in Window3 |->
               gray[y + d[2] + 1][x + d[1]] - gray[y + d[2] - 1][x + d[1]]]
      Ixx == SumOver(Window3, [d \in Window3 |-> ix[d] * ix[d]])
      Iyy == SumOver(Window3, [d \in Window3 |-> iy[d] * iy[d]])
      Ixy == SumOver(Window3, [d \in Window3 |-> ix[d] * iy[d]])
      det == ZSub(ZMul(ZInt(Ixx), ZInt(Iyy)), ZMul(ZInt(Ixy), ZInt(Ixy)))
      trace == ZInt(Ixx + Iyy)
  IN  QSub(QOf(det, NFromInt(1)),
           QMul(QMul(QFrac(4, 100), QOf(trace, NFromInt(1))),
                QOf(trace, NFromInt(1))))

CORNER_THRESHOLD == 1000

\* the points [x, y] of the responses above the threshold, sorted by
\* descending response (Array.prototype.sort is stable: equal responses
\* keep scan order), cut to the first maxPoints
detectKeypoints(gray, maxPoints) ==
  LET h == Height(gray)
      w == Width(gray)
      r == [p \in KeypointCandidates(h, w) |-> CornerResponse(gray, p[1], p[2])]
      responses == {p \in KeypointCandidates(h, w) :
                      QGt(r[p], QInt(CORNER_THRESHOLD))}
      Before(p, q) == \/ QGt(r[p], r[q])
                      \/ (QEq(r[p], r[q]) /\ p[2] * w + p[1] < q[2] * w + q[1])
      rank == [p \in responses |->
                 Cardinality({q \in responses : Before(q, p)})]
  IN  [i \in 1 .. MinInt(maxPoints, Cardinality(responses)) |->
         CHOOSE p \in responses : rank[p] = i - 1]

\* squared Euclidean distance of two points
Dist2(p, q) == (p[1] - q[1]) * (p[1] - q[1]) + (p[2] - q[2]) * (p[2] - q[2])

\* best <= maxDist for best the least distance from kpRef[i] to a sketch
\* keypoint (Infinity when there is none); distances are compared by their
\* squares
KeypointMatched(kpRef, kpSketch, i, maxDist) ==
  \E j \in 1 .. Len(kpSketch) :
    QLe(QInt(Dist2(kpRef[i], kpSketch[j])), QMul(maxDist, maxDist))

\* keypointMatchScore without its first line
keypointMatchScoreUnguarded(kpRef, kpSketch, size) ==
  LET maxDist == QMul(QInt(size), QFrac(5, 100))
      matched == Cardinality({i \in 1 .. Len(kpRef) :
                                KeypointMatched(kpRef, kpSketch, i, maxDist)})
  IN  IF Len(kpRef) = 0 THEN QInt(0)
      ELSE QDiv(QInt(matched), QInt(Len(kpRef)))

\* keypointMatchScore with a tolerance of 6% of the size
keypointMatchScoreWide(kpRef, kpSketch, size) ==
  LET maxDist == QMul(QInt(size), QFrac(6, 100))
      matched == Cardinality({i \in 1 .. Len(kpRef) :
                                KeypointMatched(kpRef, kpSketch, i, maxDist)})
  IN  IF Len(kpRef) = 0 THEN QFrac(5, 10)
      ELSE IF Len(kpRef) = 0 THEN QInt(0)
      ELSE QDiv(QInt(matched), QInt(Len(kpRef)))

keypointMatchScore(kpRef, kpSketch, size) ==
  LET maxDist == QMul(QInt(size), QFrac(5, 100))
      matched == Cardinality({i \in 1 .. Len(kpRef) :
                                KeypointMatched(kpRef, kpSketch, i, maxDist)})
  IN  IF Len(kpRef) = 0 THEN QFrac(5, 10)
      ELSE IF Len(kpRef) = 0 THEN QInt(0)
      ELSE QDiv(QInt(matched), QInt(Len(kpRef)))

(***************************************************************************)
(* localSimilarity                                                          *)
(***************************************************************************)
LOCAL_PATCH == 16

\* for (y = 0; y + patchSize < h; y += patchSize), likewise x
LocalPatches(h, w, patchSize) ==
  {p \in (0 .. w) \X (0 .. h) :
     /\ p[1] % patchSize = 0 /\ p[1] + patchSize < w
     /\ p[2] % patchSize = 0 /\ p[2] + patchSize < h}

\* sum of term[dy][dx] over the patchSize x patchSize offsets, row by row
PatchSum(term, patchSize) ==
  LET rowAcc[dy \in 0 .. patchSize - 1, i \in 0 .. patchSize] ==
        IF i = 0 THEN 0 ELSE rowAcc[dy, i - 1] + term[dy][i - 1]
      acc[j \in 0 .. patchSize] ==
        IF j = 0 THEN 0 ELSE acc[j - 1] + rowAcc[j - 1, patchSize]
  IN  acc[patchSize]

\* Math.max(0, ssim) of the patch at <<x, y>>.  The variances and the
\* covariance are computed from the sums of squares and products:
\* sum((a - meanA) * (b - meanB)) / n = sum(a * b) / n - meanA * meanB.
PatchScore(ref, sketch, x, y, patchSize) ==
  LET n == patchSize * patchSize
      off == 0 .. patchSize - 1
      R == [dy \in off |-> [dx \in off |-> ref[y + dy][x + dx]]]
      S == [dy \in off |-> [dx \in off |-> sketch[y + dy][x + dx]]]
      meanR == QDiv(QInt(PatchSum(R, patchSize)), QInt(n))
      meanS == QDiv(QInt(PatchSum(S, patchSize)), QInt(n))
      sumRR == PatchSum([dy \in off |-> [dx \in off |-> R[dy][dx] * R[dy][dx]]], patchSize)
      sumSS == PatchSum([dy \in off |-> [dx \in off |-> S[dy][dx] * S[dy][dx]]], patchSize)
      sumRS == PatchSum([dy \in off |-> [dx \in off |-> R[dy][dx] * S[dy][dx]]], patchSize)
      varR == QSub(QDiv(QInt(sumRR), QInt(n)), QMul(meanR, meanR))
      varS == QSub(QDiv(QInt(sumSS), QInt(n)), QMul(meanS, meanS))
      cov == QSub(QDiv(QInt(sumRS), QInt(n)), QMul(meanR, meanS))
      C1 == QFrac(65025, 10000)
      C2 == QFrac(585225, 10000)
      ssim == QDiv(QMul(QAdd(QMul(QMul(QInt(2), meanR), meanS), C1),
                        QAdd(QMul(QInt(2), cov), C2)),
                   QMul(QAdd(QAdd(QMul(meanR, meanR), QMul(meanS, meanS)), C1),
                        QAdd(QAdd(varR, varS), C2)))
  IN  QMax(QInt(0), ssim)

RECURSIVE SumScores(_, _)
SumScores(S, score) ==
  IF S = {} THEN QInt(0)
  ELSE LET e == CHOOSE e \in S : TRUE
       IN  QAdd(score[e], SumScores(S \ {e}, score))

localSimilarity(ref, sketch, patchSize) ==
  LET patches == LocalPatches(Height(ref), Width(ref), patchSize)
      count == Cardinality(patches)
      totalSim == SumScores(patches,
                    [p \in patches |->
                       PatchScore(ref, sketch, p[1], p[2], patchSize)])
  IN  IF count = 0 THEN QInt(0) ELSE QDiv(totalSim, QInt(count))

(***************************************************************************)
(* computeScore                                                             *)
(***************************************************************************)
Difficulties == {"easy", "medium", "hard"}

\* the table with the local weight of medium mistyped
DIFFICULTY_WEIGHTS_Typo ==
  [easy   |-> [contour |-> 65, keypoints |-> 30, local |-> 5],
   medium |-> [contour |-> 60, keypoints |-> 33, local |-> 8],
   hard   |-> [contour |-> 55, keypoints |-> 35, local |-> 10]]

\* the weights in hundredths
DIFFICULTY_WEIGHTS ==
  [easy   |-> [contour |-> 65, keypoints |-> 30, local |-> 5],
   medium |-> [contour |-> 60, keypoints |-> 33, local |-> 7],
   hard   |-> [contour |-> 55, keypoints |-> 35, local |-> 10]]

Weight(hundredths) == QFrac(hundredths, 100)

\* a white canvas of w x h samples with the given rectangles
\* <<x0, y0, x1, y1>> (corners included, clipped to the canvas) inked black:
\* what Jimp.read, resize and toGrayscaleBuffer deliver for such a drawing
Canvas(w, h, rects) ==
  [y \in 0 .. h - 1 |-> [x \in 0 .. w - 1 |->
     IF \E r \in rects : x >= r[1] /\ x <= r[3] /\ y >= r[2] /\ y <= r[4]
     THEN 0 ELSE 255]]

\* canonical resolution (512 in the source), scaled down
TARGET_SIZE == 32

\* the most strokes a player adds to a drawing between submissions
MaxStrokes == 2

\* the reference drawings; "missing" names a reference that is not on disk
References == {"blank", "dot", "line", "box", "missing"}

Drawing(name) ==
  CASE name = "dot" -> {<<11, 20, 11, 20>>}
    [] name = "line" -> {<<4, 16, 27, 16>>}
    [] name = "box" -> {<<8, 8, 20, 20>>}
    [] OTHER -> {}

\* the strokes a player may add, in the order they are added
StrokeList ==
  << <<4, 26, 27, 26>>,      \* the line, ten rows lower
     <<14, 23, 14, 23>>,     \* a dot
     <<0, 20, 31, 27>>,      \* a block of eight rows
     <<0, 28, 31, 30>>,      \* a block of three rows below it
     <<0, 0, 31, 31>> >>     \* the whole canvas

None == "none"

VARIABLES
  pc,              \* position of the invocation
  reference,       \* name of the reference drawing
  start,           \* "blank" or "reference": what the player started from
  strokes,         \* indices into StrokeList of the strokes added so far
  difficulty,
  previous,        \* score and penalty factors of the previous submission
  refGray, sketchGray,
  refBin, sketchBin,
  refKP, sketchKP,
  contour, kpScore, localScore, inkPenalty, spatialPenalty,
  composite,       \* weights, rawComposite, composite, percentage
  scratch,         \* the files under uploads/results
  result           \* the returned ScoringResult (numeric fields)

VARIABLES
  calls,           \* the computeScore invocations in flight, with their callers
  files            \* uploads/results as concurrent invocations see it

VARIABLES
  room,            \* the Room object of socketHandler.ts and whether rooms holds it
  sockets,         \* playerRooms and the sockets that have disconnected
  pending,         \* intervals, timeouts and awaited promises of the handlers
  emitted          \* the last room:results payload sent to the room

vars == <<pc, reference, start, strokes, difficulty, previous, refGray,
          sketchGray, refBin, sketchBin, refKP, sketchKP, contour, kpScore,
          localScore, inkPenalty, spatialPenalty, composite, scratch, result,
          calls, files, room, sockets, pending, emitted>>

\* the state of the server around a single invocation
roomState == <<room, sockets, pending, emitted>>
server == <<calls, files, roomState>>

\* no invocation in flight
NoRooms == room = None /\ sockets = None /\ pending = None /\ emitted = None
NoServer == calls = None /\ files = None /\ NoRooms

session == <<reference, start, strokes, difficulty, previous>>
buffers == <<refGray, sketchGray>>
edges == <<refBin, sketchBin, refKP, sketchKP>>
stages == <<contour, kpScore, localScore, inkPenalty, spatialPenalty>>

\* the rectangles of the submitted drawing
SketchRects ==
  (IF start = "reference" THEN Drawing(reference) ELSE {})
    \cup {StrokeList[i] : i \in strokes}

NoStages ==
  /\ refBin = None /\ sketchBin = None
  /\ refKP = None /\ sketchKP = None
  /\ contour = None /\ kpScore = None /\ localScore = None
  /\ inkPenalty = None /\ spatialPenalty = None
  /\ composite = None

Init ==
  /\ pc = "called"
  /\ reference \in References
  /\ start \in {"blank", "reference"}
  /\ reference \in {"blank", "missing"} => start = "blank"
  /\ strokes = {}
  /\ difficulty \in Difficulties
  /\ previous = None
  /\ refGray = None /\ sketchGray = None
  /\ NoStages
  /\ scratch = {}
  /\ result = None
  /\ NoServer

\* the reference resolved without the fallback to the submission
ReferenceRectsNoFallback == Drawing(reference)

\* lines 384-393: the drawing at refAbsPath, which is the submission's path
\* when the reference does not exist on disk
ReferenceRects ==
  IF reference = "missing" THEN SketchRects ELSE Drawing(reference)

\* lines 384-401: resolve the reference, read and resize both images,
\* convert them to grayscale
Load ==
  /\ pc = "called"
  /\ sketchGray' = Canvas(TARGET_SIZE, TARGET_SIZE, SketchRects)
  /\ refGray' = Canvas(TARGET_SIZE, TARGET_SIZE, ReferenceRects)
  /\ pc' = "loaded"
  /\ UNCHANGED <<server, session, edges, stages, composite, scratch, result>>

\* Composite with the percentage cut off after two decimals
CompositeTruncated(contourScore, kp, local, ink, spatial, diff) ==
  LET weights == DIFFICULTY_WEIGHTS[diff]
      rawComposite == QAdd(QAdd(QMul(Weight(weights.contour), contourScore),
                                QMul(Weight(weights.keypoints), kp)),
                           QMul(Weight(weights.local), local))
      comp == QMul(QMul(rawComposite, ink), spatial)
      scaled == QMul(QMin(QInt(100), QMul(comp, QInt(100))), QInt(100))
      percentage ==
        QDiv(QInt(IF QLt(scaled, QInt(MathRound(scaled)))
                  THEN MathRound(scaled) - 1 ELSE MathRound(scaled)),
             QInt(100))
  IN  [weights |-> weights, rawComposite |-> rawComposite,
       composite |-> comp, percentage |-> percentage]

\* lines 428-437
Composite(contourScore, kp, local, ink, spatial, diff) ==
  LET weights == DIFFICULTY_WEIGHTS[diff]
      rawComposite == QAdd(QAdd(QMul(Weight(weights.contour), contourScore),
                                QMul(Weight(weights.keypoints), kp)),
                           QMul(Weight(weights.local), local))
      comp == QMul(QMul(rawComposite, ink), spatial)
      percentage ==
        QDiv(QInt(MathRound(QMul(QMin(QInt(100), QMul(comp, QInt(100))),
                                 QInt(100)))),
             QInt(100))
  IN  [weights |-> weights, rawComposite |-> rawComposite,
       composite |-> comp, percentage |-> percentage]

\* lines 403-437: edge maps, the three similarity terms, the two penalties
\* and the composite
Score ==
  /\ pc = "loaded"
  /\ refBin' = binarize(sobelEdge(refGray), EDGE_THRESHOLD)
  /\ sketchBin' = binarize(sobelEdge(sketchGray), EDGE_THRESHOLD)
  /\ contour' = contourF1(refBin', sketchBin', CONTOUR_TOLERANCE)
  /\ refKP' = detectKeypoints(refGray, MAX_POINTS)
  /\ sketchKP' = detectKeypoints(sketchGray, MAX_POINTS)
  /\ kpScore' = keypointMatchScore(refKP', sketchKP', TARGET_SIZE)
  /\ localScore' = localSimilarity(refGray, sketchGray, LOCAL_PATCH)
  /\ inkPenalty' = inkDensityPenalty(refGray, sketchGray)
  /\ spatialPenalty' = spatialExtraPenalty(refGray, sketchGray, SPATIAL_PATCH)
  /\ composite' = Composite(contour'.f1, kpScore', localScore', inkPenalty',
                            spatialPenalty', difficulty)
  /\ pc' = "scored"
  /\ UNCHANGED <<server, session, buffers, scratch, result>>

ScratchFiles == {"heatmap", "comparison", "overlay"}

\* lines 439-461: write the three images, read them back as base64
Render ==
  /\ pc = "scored"
  /\ scratch' = scratch \cup ScratchFiles
  /\ pc' = "rendered"
  /\ UNCHANGED <<server, session, buffers, edges, stages, composite, result>>

\* Math.round(v * 10000) / 100
Percent2(v) == QDiv(QInt(MathRound(QMul(v, QInt(10000)))), QInt(100))

\* lines 463-481: remove the scratch files, return the result
Return ==
  /\ pc = "rendered"
  /\ scratch' = scratch \ ScratchFiles
  /\ result' = [score |-> composite.percentage,
                breakdown |-> [contourIoU |-> Percent2(contour.f1),
                               keypointMatch |-> Percent2(kpScore),
                               localSimilarity |-> Percent2(localScore),
                               composite |-> composite.percentage]]
  /\ pc' = "returned"
  /\ UNCHANGED <<server, session, buffers, edges, stages, composite>>

\* the player adds one more stroke to the drawing and submits it again
AddStroke ==
  /\ pc = "returned"
  /\ Cardinality(strokes) < MaxStrokes
  /\ \E i \in 1 .. Len(StrokeList) :
       /\ \A j \in strokes : j < i
       /\ strokes' = strokes \cup {i}
  /\ previous' = [score |-> result.score,
                   penalties |-> QMul(inkPenalty, spatialPenalty)]
  /\ refGray' = None /\ sketchGray' = None
  /\ refBin' = None /\ sketchBin' = None
  /\ refKP' = None /\ sketchKP' = None
  /\ contour' = None /\ kpScore' = None /\ localScore' = None
  /\ inkPenalty' = None /\ spatialPenalty' = None
  /\ composite' = None
  /\ result' = None
  /\ pc' = "called"
  /\ UNCHANGED <<server, reference, start, difficulty, scratch>>

Next == Load \/ Score \/ Render \/ Return \/ AddStroke

Spec == Init /\ [][Next]_vars

(***************************************************************************)
(* contourF1 on its own, applied to pairs of small edge maps: every map of  *)
(* at most two edge pixels and every full row or column of an               *)
(* EdgeRows x EdgeCols grid.                                                 *)
(***************************************************************************)
EdgeRows == 3
EdgeCols == 6

EdgeCells == (0 .. EdgeCols - 1) \X (0 .. EdgeRows - 1)

EdgeSets ==
  {{}} \cup {{p, q} : p \in EdgeCells, q \in EdgeCells}
       \cup {{p \in EdgeCells : p[2] = y} : y \in 0 .. EdgeRows - 1}
       \cup {{p \in EdgeCells : p[1] = x} : x \in 0 .. EdgeCols - 1}

EdgeMap(S) ==
  [y \in 0 .. EdgeRows - 1 |-> [x \in 0 .. EdgeCols - 1 |-> <<x, y>> \in S]]

\* the variables an invocation of a single stage does not use
NoSession ==
  /\ reference = "blank" /\ start = "blank" /\ strokes = {}
  /\ difficulty = "easy" /\ previous = None
  /\ scratch = {} /\ result = None
  /\ NoServer

ContourInit ==
  /\ pc = "contour"
  /\ \E R \in EdgeSets, S \in EdgeSets :
       refBin = EdgeMap(R) /\ sketchBin = EdgeMap(S)
  /\ refGray = None /\ sketchGray = None
  /\ refKP = None /\ sketchKP = None
  /\ contour = None /\ kpScore = None /\ localScore = None
  /\ inkPenalty = None /\ spatialPenalty = None /\ composite = None
  /\ NoSession

ApplyContour ==
  /\ pc = "contour"
  /\ contour' = contourF1(refBin, sketchBin, CONTOUR_TOLERANCE)
  /\ pc' = "contour-done"
  /\ UNCHANGED <<server, session, buffers, edges, kpScore, localScore, inkPenalty,
                 spatialPenalty, composite, scratch, result>>

SpecContour == ContourInit /\ [][ApplyContour]_vars

(***************************************************************************)
(* Claims about contourF1 (checked under SpecContour)                       *)
(***************************************************************************)
\* <<x, y>> pixels p and q are within the tolerance window of 3 pixels
Within3(p, q) ==
  /\ p[1] - q[1] <= 3 /\ q[1] - p[1] <= 3
  /\ p[2] - q[2] <= 3 /\ q[2] - p[2] <= 3

\* sketch edge pixels with some reference edge pixel within tolerance
SketchNearRef == {q \in TruePixels(sketchBin) :
                    \E p \in TruePixels(refBin) : Within3(p, q)}

\* reference edge pixels with some sketch edge pixel within tolerance
RefNearSketch == {p \in TruePixels(refBin) :
                    \E q \in TruePixels(sketchBin) : Within3(p, q)}

\* C1: an edge map with at least one edge pixel compared with itself has
\* precision 1, recall 1 and F1 1.
C1_IdentityContour ==
  (pc = "contour-done" /\ refBin = sketchBin /\ TruePixels(refBin) # {})
    => /\ QEq(contour.precision, QInt(1))
       /\ QEq(contour.recall, QInt(1))
       /\ QEq(contour.f1, QInt(1))

\* C2: recall is the number of reference edge pixels that have a sketch
\* edge pixel within tolerance, divided by the number of reference edge
\* pixels.
C2_RecallFormula ==
  (pc = "contour-done" /\ TruePixels(refBin) # {})
    => QEq(contour.recall,
           QFrac(Cardinality(RefNearSketch), Cardinality(TruePixels(refBin))))

\* precision is the number of sketch edge pixels with a reference edge pixel
\* within tolerance, divided by the number of sketch edge pixels
PrecisionAsClaimed ==
  TruePixels(sketchBin) # {}
    => QEq(contour.precision,
           QFrac(Cardinality(SketchNearRef), Cardinality(TruePixels(sketchBin))))

\* C3 as stated: precision is as claimed, and when no sketch edge pixel is
\* within tolerance of a reference edge pixel, precision, recall and F1 are
\* all 0.
C3_AllZeroWhenNoMatch ==
  pc = "contour-done"
    => /\ PrecisionAsClaimed
       /\ SketchNearRef = {}
            => /\ QIsZero(contour.precision)
               /\ QIsZero(contour.recall)
               /\ QIsZero(contour.f1)

\* C3 as amended: precision is as claimed, and when no sketch edge pixel is
\* within tolerance of a reference edge pixel, precision and F1 are 0 and
\* recall is 0 if the reference has an edge pixel, 1 if it has none.
C3_PrecisionFormula ==
  pc = "contour-done"
    => /\ PrecisionAsClaimed
       /\ SketchNearRef = {}
            => /\ QIsZero(contour.precision)
               /\ QIsZero(contour.f1)
               /\ TruePixels(refBin) # {} => QIsZero(contour.recall)
               /\ TruePixels(refBin) = {} => QEq(contour.recall, QInt(1))

\* a line compared with the same line moved out of tolerance
C3_Witness ==
  /\ pc = "contour-done"
  /\ Cardinality(TruePixels(refBin)) > 2
  /\ Cardinality(TruePixels(sketchBin)) > 2
  /\ SketchNearRef = {}
  /\ QIsZero(contour.f1)

(***************************************************************************)
(* inkDensityPenalty on its own, applied to pairs of InkSide x InkSide      *)
(* buffers whose first k samples (rows first) are black: every pair of      *)
(* dark-pixel counts.                                                       *)
(***************************************************************************)
InkSide == 10

Fill(n, k) ==
  [y \in 0 .. n - 1 |-> [x \in 0 .. n - 1 |->
     IF y * n + x < k THEN 0 ELSE 255]]

InkInit ==
  /\ pc = "ink"
  /\ \E r \in 0 .. InkSide * InkSide, k \in 0 .. InkSide * InkSide :
       refGray = Fill(InkSide, r) /\ sketchGray = Fill(InkSide, k)
  /\ NoStages
  /\ NoSession

ApplyInk ==
  /\ pc = "ink"
  /\ inkPenalty' = inkDensityPenalty(refGray, sketchGray)
  /\ pc' = "ink-done"
  /\ UNCHANGED <<server, session, buffers, edges, contour, kpScore, localScore,
                 spatialPenalty, composite, scratch, result>>

SpecInk == InkInit /\ [][ApplyInk]_vars

(***************************************************************************)
(* The numeric stages one after the other on buffers of several sizes:      *)
(* smaller than a patch, exactly one or two patches, one sample more.       *)
(***************************************************************************)
SmallSide == 8

\* <<w, h>>
StageSizes ==
  {<<n, n>> : n \in {SmallSide, LOCAL_PATCH, LOCAL_PATCH + 1,
                     SPATIAL_PATCH, SPATIAL_PATCH + 1}}
    \cup {<<LOCAL_PATCH + 1, SPATIAL_PATCH + 1>>,
          <<SPATIAL_PATCH + 1, LOCAL_PATCH + 1>>}

\* the drawings tried at each size
StageDrawings(w, h) ==
  { {},
    {<<2, 2, 2, 2>>},
    {<<1, h \div 2, w - 2, h \div 2>>},
    {<<2, 2, w \div 2, h \div 2>>},
    {<<0, 0, w - 1, h - 1>>} }

StagesInit ==
  /\ pc = "stage-edges"
  /\ \E sz \in StageSizes :
       \E R \in StageDrawings(sz[1], sz[2]), S \in StageDrawings(sz[1], sz[2]) :
         /\ refGray = Canvas(sz[1], sz[2], R)
         /\ sketchGray = Canvas(sz[1], sz[2], S)
  /\ NoStages
  /\ NoSession

StageEdges ==
  /\ pc = "stage-edges"
  /\ refBin' = binarize(sobelEdge(refGray), EDGE_THRESHOLD)
  /\ sketchBin' = binarize(sobelEdge(sketchGray), EDGE_THRESHOLD)
  /\ pc' = "stage-contour"
  /\ UNCHANGED <<server, session, buffers, refKP, sketchKP, stages, composite,
                 scratch, result>>

StageContour ==
  /\ pc = "stage-contour"
  /\ contour' = contourF1(refBin, sketchBin, CONTOUR_TOLERANCE)
  /\ pc' = "stage-keypoints"
  /\ UNCHANGED <<server, session, buffers, edges, kpScore, localScore, inkPenalty,
                 spatialPenalty, composite, scratch, result>>

StageKeypoints ==
  /\ pc = "stage-keypoints"
  /\ refKP' = detectKeypoints(refGray, MAX_POINTS)
  /\ sketchKP' = detectKeypoints(sketchGray, MAX_POINTS)
  /\ kpScore' = keypointMatchScore(refKP', sketchKP', Width(refGray))
  /\ pc' = "stage-local"
  /\ UNCHANGED <<server, session, buffers, refBin, sketchBin, contour, localScore,
                 inkPenalty, spatialPenalty, composite, scratch, result>>

StageLocal ==
  /\ pc = "stage-local"
  /\ localScore' = localSimilarity(refGray, sketchGray, LOCAL_PATCH)
  /\ pc' = "stage-penalties"
  /\ UNCHANGED <<server, session, buffers, edges, contour, kpScore, inkPenalty,
                 spatialPenalty, composite, scratch, result>>

StagePenalties ==
  /\ pc = "stage-penalties"
  /\ inkPenalty' = inkDensityPenalty(refGray, sketchGray)
  /\ spatialPenalty' = spatialExtraPenalty(refGray, sketchGray, SPATIAL_PATCH)
  /\ pc' = "stages-done"
  /\ UNCHANGED <<server, session, buffers, edges, contour, kpScore, localScore,
                 composite, scratch, result>>

StagesNext ==
  StageEdges \/ StageContour \/ StageKeypoints \/ StageLocal \/ StagePenalties

SpecStages == StagesInit /\ [][StagesNext]_vars

(***************************************************************************)
(* Claims about the penalties (checked under SpecInk)                       *)
(***************************************************************************)
\* fraction of the samples of a buffer below the ink threshold
DarkRatio(gray) ==
  QFrac(DarkCount(gray, 0, 0, Width(gray), Height(gray)),
        Width(gray) * Height(gray))

\* C5: against a reference with at most 30% dark pixels, a submission with
\* more than 40% dark pixels gets an ink-density factor of at most 0.15.
C5_AntiCheese ==
  (/\ pc = "ink-done"
   /\ QLe(DarkRatio(refGray), QFrac(3, 10))
   /\ QGt(DarkRatio(sketchGray), QFrac(4, 10)))
    => QLe(inkPenalty, QFrac(15, 100))

\* a sparse, non-empty reference and a submission between 40% and 60% ink
C5_Witness ==
  /\ pc = "ink-done"
  /\ QGt(DarkRatio(refGray), QInt(0))
  /\ QLe(DarkRatio(refGray), QFrac(3, 10))
  /\ QGt(DarkRatio(sketchGray), QFrac(4, 10))
  /\ QLe(DarkRatio(sketchGray), QFrac(6, 10))
  /\ QEq(inkPenalty, QFrac(15, 100))

\* C6: the ink-density factor is exactly 1 when the submission's dark ratio
\* is at most 1.2 times the reference's, and lies in [0.05, 1] always.
C6_PenaltyNeverBonus ==
  pc = "ink-done"
    => /\ QLe(DarkRatio(sketchGray), QMul(DarkRatio(refGray), QFrac(12, 10)))
            => QEq(inkPenalty, QInt(1))
       /\ QLe(QFrac(5, 100), inkPenalty)
       /\ QLe(inkPenalty, QInt(1))

(***************************************************************************)
(* Claims about the stages (checked under SpecStages)                       *)
(***************************************************************************)
\* the origins <<x, y>> of the complete patchSize x patchSize patches of a
\* w x h buffer
CompletePatches(w, h, patchSize) ==
  {p \in (0 .. w) \X (0 .. h) :
     /\ p[1] % patchSize = 0 /\ p[1] + patchSize <= w
     /\ p[2] % patchSize = 0 /\ p[2] + patchSize <= h}

\* C7: no stage divides by zero.  Precision is 0 without sketch edges,
\* recall is 1 without reference edges, F1 is 0 when precision + recall is
\* 0, the keypoint score is 0.5 without reference keypoints, local
\* similarity is 0 and the spatial factor 1 without a complete patch, and
\* every result is a finite number.
C7_NoDivisionByZero ==
  pc = "stages-done"
    => /\ TruePixels(sketchBin) = {} => QIsZero(contour.precision)
       /\ TruePixels(refBin) = {} => QEq(contour.recall, QInt(1))
       /\ QIsZero(QAdd(contour.precision, contour.recall))
            => QIsZero(contour.f1)
       /\ Len(refKP) = 0 => QEq(kpScore, QFrac(1, 2))
       /\ CompletePatches(Width(refGray), Height(refGray), 16) = {}
            => QIsZero(localScore)
       /\ CompletePatches(Width(refGray), Height(refGray), 32) = {}
            => QEq(spatialPenalty, QInt(1))
       /\ IsFinite(contour.precision) /\ IsFinite(contour.recall)
       /\ IsFinite(contour.f1) /\ IsFinite(kpScore) /\ IsFinite(localScore)
       /\ IsFinite(inkPenalty) /\ IsFinite(spatialPenalty)

\* blank buffers smaller than a patch: no edge, no keypoint, no patch
C7_Witness ==
  /\ pc = "stages-done"
  /\ TruePixels(sketchBin) = {} /\ TruePixels(refBin) = {}
  /\ Len(refKP) = 0
  /\ CompletePatches(Width(refGray), Height(refGray), 16) = {}
  /\ QEq(kpScore, QFrac(1, 2))

\* the mean of the patch scores over the complete 16 x 16 patches
MeanOverCompletePatches ==
  LET patches == CompletePatches(Width(refGray), Height(refGray), 16)
  IN  QDiv(SumScores(patches,
                     [p \in patches |->
                        PatchScore(refGray, sketchGray, p[1], p[2], 16)]),
           QInt(Cardinality(patches)))

\* C10: localSimilarity is the mean of the patch scores over every complete
\* 16 x 16 patch, floor(h/16) x floor(w/16) of them.
C10_AllCompletePatches ==
  (/\ pc = "stages-done"
   /\ CompletePatches(Width(refGray), Height(refGray), 16) # {})
    => /\ Cardinality(LocalPatches(Height(refGray), Width(refGray), LOCAL_PATCH))
            = (Height(refGray) \div 16) * (Width(refGray) \div 16)
       /\ QEq(localScore, MeanOverCompletePatches)

(***************************************************************************)
(* Claims about computeScore (checked under Spec)                           *)
(***************************************************************************)
\* the drawing first submitted is the reference itself
StartedFromMatch == start = "reference" \/ reference = "blank"

\* C4: a submission obtained by adding strokes to one that matches the
\* reference scores no higher than the submission before it, and the
\* product of its two penalty factors is no larger.
C4_MonotonicDegradation ==
  (pc = "returned" /\ StartedFromMatch /\ strokes # {})
    => /\ QLe(result.score, previous.score)
       /\ QLe(QMul(inkPenalty, spatialPenalty), previous.penalties)

\* 100 * min(1, raw composite * ink factor * spatial factor), the raw
\* composite being the weighted sum of the three terms
ClaimedPercent ==
  LET w == DIFFICULTY_WEIGHTS[difficulty]
      raw == QAdd(QAdd(QMul(QFrac(w.contour, 100), contour.f1),
                       QMul(QFrac(w.keypoints, 100), kpScore)),
                  QMul(QFrac(w.local, 100), localScore))
  IN  QMul(QInt(100),
           QMin(QInt(1), QMul(QMul(raw, inkPenalty), spatialPenalty)))

\* q is v rounded to two decimals: a whole number of hundredths k with
\* k - 1/2 <= 100 v < k + 1/2
IsRounded2(q, v) ==
  /\ q.den \in {NFromInt(1), NFromInt(100)}
  /\ QLe(QSub(QMul(q, QInt(100)), QFrac(1, 2)), QMul(v, QInt(100)))
  /\ QLt(QMul(v, QInt(100)), QAdd(QMul(q, QInt(100)), QFrac(1, 2)))

InPercentRange(q) == QLe(QInt(0), q) /\ QLe(q, QInt(100))

\* C8: the score is 100 * min(1, raw * ink * spatial) rounded to two
\* decimals; the score and every breakdown field lie in [0, 100]; the score
\* is the breakdown's composite.
C8_ScoreRounded ==
  pc = "returned"
    => /\ IsRounded2(result.score, ClaimedPercent)
       /\ InPercentRange(result.score)
       /\ InPercentRange(result.breakdown.contourIoU)
       /\ InPercentRange(result.breakdown.keypointMatch)
       /\ InPercentRange(result.breakdown.localSimilarity)
       /\ InPercentRange(result.breakdown.composite)
       /\ result.score = result.breakdown.composite

\* a returned score strictly between 0 and 100 that is not a whole number
\* of hundredths before rounding
C8_Witness ==
  /\ pc = "returned"
  /\ QLt(QInt(0), result.score) /\ QLt(result.score, QInt(100))
  /\ ~QEq(result.score, ClaimedPercent)

SpatialCols == 6

\* pairs <<reference, submission>> of dark counts around the 2% and 5%
\* thresholds of a 1024-sample patch, and two pairs of equal counts
InkPairs == ({20, 21} \X {51, 52}) \cup {<<0, 0>>, <<52, 52>>}

\* counts[i] is the number of dark samples of the i-th patch
PatchRow(counts) ==
  [y \in 0 .. SPATIAL_PATCH - 1 |-> [x \in 0 .. SPATIAL_PATCH * Len(counts) |->
     IF /\ x < SPATIAL_PATCH * Len(counts)
        /\ y * SPATIAL_PATCH + (x % SPATIAL_PATCH) < counts[(x \div SPATIAL_PATCH) + 1]
     THEN 0 ELSE 255]]

SpatialInit ==
  /\ pc = "spatial"
  /\ \E first \in InkPairs, rest \in InkPairs, j \in 0 .. SpatialCols - 1 :
       /\ refGray = PatchRow([i \in 1 .. SpatialCols |->
                                IF i <= j THEN first[1] ELSE rest[1]])
       /\ sketchGray = PatchRow([i \in 1 .. SpatialCols |->
                                   IF i <= j THEN first[2] ELSE rest[2]])
  /\ NoStages
  /\ NoSession

ApplySpatial ==
  /\ pc = "spatial"
  /\ spatialPenalty' = spatialExtraPenalty(refGray, sketchGray, SPATIAL_PATCH)
  /\ pc' = "spatial-done"
  /\ UNCHANGED <<server, session, buffers, edges, contour, kpScore, localScore,
                 inkPenalty, composite, scratch, result>>

SpecSpatial == SpatialInit /\ [][ApplySpatial]_vars

(***************************************************************************)
(* Claims about spatialExtraPenalty (checked under SpecSpatial)             *)
(***************************************************************************)
\* the complete 32 x 32 patches whose reference dark ratio is below 2% and
\* whose submission dark ratio is above 5%
ExtraAsClaimed ==
  {p \in CompletePatches(Width(refGray), Height(refGray), 32) :
     /\ 100 * DarkCount(refGray, p[1], p[2], 32, 32) < 2 * 32 * 32
     /\ 100 * DarkCount(sketchGray, p[1], p[2], 32, 32) > 5 * 32 * 32}

\* C11: the spatial factor is max(0.7, 1 - 1.5 * extra / total) for extra
\* the number of complete 32 x 32 patches with reference ink below 2% and
\* submission ink above 5%; it lies in [0.7, 1] and is 1 when submission
\* and reference are the same buffer.
C11_SpatialFormula ==
  pc = "spatial-done"
    => /\ QEq(spatialPenalty,
              QMax(QFrac(7, 10),
                   QSub(QInt(1),
                        QFrac(15 * Cardinality(ExtraAsClaimed),
                              10 * Cardinality(CompletePatches(Width(refGray),
                                                               Height(refGray), 32))))))
       /\ QLe(QFrac(7, 10), spatialPenalty) /\ QLe(spatialPenalty, QInt(1))
       /\ refGray = sketchGray => QEq(spatialPenalty, QInt(1))

\* one extra patch of several: a factor strictly between 0.7 and 1
C11_Witness ==
  /\ pc = "spatial-done"
  /\ Cardinality(ExtraAsClaimed) = 1
  /\ QLt(QFrac(7, 10), spatialPenalty) /\ QLt(spatialPenalty, QInt(1))
(***************************************************************************)
(* keypointMatchScore on its own, at the canonical size of the source,      *)
(* applied to lists of distinct keypoints.  From [2, 2] the point [20, 20]  *)
(* is at distance sqrt(648) < 25.6 and [26, 11] at sqrt(657) > 25.6.        *)
(***************************************************************************)
\* const TARGET_SIZE = 512
CANONICAL_SIZE == 512

MaxKeypoints == 3

KeypointPool == {<<2, 2>>, <<20, 20>>, <<26, 11>>, <<200, 200>>}

\* the lists of distinct points of the pool of length at most MaxKeypoints
KeypointLists ==
  UNION {{q \in [1 .. n -> KeypointPool] :
            \A i, j \in 1 .. n : i # j => q[i] # q[j]} : n \in 0 .. MaxKeypoints}

KeypointsInit ==
  /\ pc = "keypoints"
  /\ refKP \in KeypointLists
  /\ sketchKP \in KeypointLists
  /\ refGray = None /\ sketchGray = None
  /\ refBin = None /\ sketchBin = None
  /\ contour = None /\ kpScore = None /\ localScore = None
  /\ inkPenalty = None /\ spatialPenalty = None /\ composite = None
  /\ NoSession

ApplyKeypoints ==
  /\ pc = "keypoints"
  /\ kpScore' = keypointMatchScore(refKP, sketchKP, CANONICAL_SIZE)
  /\ pc' = "keypoints-done"
  /\ UNCHANGED <<server, session, buffers, edges, contour, localScore, inkPenalty,
                 spatialPenalty, composite, scratch, result>>

SpecKeypoints == KeypointsInit /\ [][ApplyKeypoints]_vars

(***************************************************************************)
(* Claims about keypointMatchScore (checked under SpecKeypoints)            *)
(***************************************************************************)
\* the reference keypoints with a submission keypoint within 25.6 pixels:
\* d <= 25.6 iff 100 d^2 <= 65536
NearKeypoints ==
  {i \in 1 .. Len(refKP) :
     \E j \in 1 .. Len(sketchKP) :
       100 * ((refKP[i][1] - sketchKP[j][1]) * (refKP[i][1] - sketchKP[j][1])
              + (refKP[i][2] - sketchKP[j][2]) * (refKP[i][2] - sketchKP[j][2]))
         <= 65536}

\* C12: with at least one reference keypoint, the keypoint score is the
\* number of reference keypoints whose nearest submission keypoint is
\* within 25.6 pixels, divided by the number of reference keypoints; it is
\* 1 for equal lists, 0 for a submission without keypoints, and in [0, 1].
C12_KeypointFormula ==
  (pc = "keypoints-done" /\ Len(refKP) > 0)
    => /\ QEq(kpScore, QFrac(Cardinality(NearKeypoints), Len(refKP)))
       /\ refKP = sketchKP => QEq(kpScore, QInt(1))
       /\ Len(sketchKP) = 0 => QIsZero(kpScore)
       /\ QLe(QInt(0), kpScore) /\ QLe(kpScore, QInt(1))

\* three reference keypoints, the submission's only keypoint within
\* tolerance of one and just out of tolerance of another
C12_Witness ==
  /\ pc = "keypoints-done"
  /\ Len(refKP) = 3 /\ Len(sketchKP) = 1
  /\ sketchKP[1] = <<2, 2>>
  /\ \E i \in 1 .. 3 : refKP[i] = <<20, 20>>
  /\ \E i \in 1 .. 3 : refKP[i] = <<26, 11>>
  /\ QEq(kpScore, QFrac(1, 3))
(***************************************************************************)
(* computeScore as a function of its two buffers and the difficulty: the    *)
(* numeric fields of the ScoringResult                                      *)
(***************************************************************************)
ScoringResult(ref, sketch, diff) ==
  CHOOSE scored \in
    {[score |-> Composite(contourScore, kp, local, ink, spatial, diff).percentage,
      breakdown |->
        [contourIoU |-> Percent2(contourScore),
         keypointMatch |-> Percent2(kp),
         localSimilarity |-> Percent2(local),
         composite |->
           Composite(contourScore, kp, local, ink, spatial, diff).percentage]] :
       contourScore \in {contourF1(binarize(sobelEdge(ref), EDGE_THRESHOLD),
                                   binarize(sobelEdge(sketch), EDGE_THRESHOLD),
                                   CONTOUR_TOLERANCE).f1},
       kp \in {keypointMatchScore(detectKeypoints(ref, MAX_POINTS),
                                  detectKeypoints(sketch, MAX_POINTS),
                                  Width(ref))},
       local \in {localSimilarity(ref, sketch, LOCAL_PATCH)},
       ink \in {inkDensityPenalty(ref, sketch)},
       spatial \in {spatialExtraPenalty(ref, sketch, SPATIAL_PATCH)}} : TRUE

(***************************************************************************)
(* Claims about the reference fallback (checked under Spec)                 *)
(***************************************************************************)
\* C13: with a reference that is not on disk, computeScore returns the
\* score and breakdown of the submission compared with itself.
C13_MissingReferenceFallback ==
  (pc = "returned" /\ reference = "missing")
    => result = ScoringResult(Canvas(TARGET_SIZE, TARGET_SIZE, SketchRects),
                              Canvas(TARGET_SIZE, TARGET_SIZE, SketchRects),
                              difficulty)

\* a non-blank submission scored against a missing reference
C13_Witness ==
  /\ pc = "returned"
  /\ reference = "missing"
  /\ strokes # {}
  /\ refGray = sketchGray
  /\ QGt(result.score, QInt(0))
(***************************************************************************)
(* computeScore invocations interleaved at their await points, with the     *)
(* callers that await them: the REST routes and the room:submit handler.    *)
(* An image is named by its drawing; "corrupt" is a file Jimp cannot        *)
(* decode, "missing" a reference that is not on disk.                       *)
(***************************************************************************)
\* the invocations that may overlap
CallIds == {"first", "second"}

\* the values `${Date.now()}-${Math.random().toString(36).slice(2)}` takes
ScratchIds == {"id-1", "id-2"}

Callers == {"rest", "socket"}

\* sketchPath, referencePath, difficulty
CallInputs ==
  {[sketch |-> "line", reference |-> "line", difficulty |-> "easy"],
   [sketch |-> "line", reference |-> "line", difficulty |-> "hard"],
   [sketch |-> "line", reference |-> "missing", difficulty |-> "easy"],
   [sketch |-> "line", reference |-> "corrupt", difficulty |-> "easy"],
   [sketch |-> "corrupt", reference |-> "line", difficulty |-> "easy"],
   [sketch |-> "corrupt", reference |-> "missing", difficulty |-> "easy"]}

\* Jimp.read resolves
Decodable(image) == image # "corrupt"

\* lines 384-393: the image at refAbsPath
ResolvedReference(input) ==
  IF input.reference = "missing" THEN input.sketch ELSE input.reference

\* the images and the difficulty the stages of an invocation work on
Scored(input) == <<ResolvedReference(input), input.sketch, input.difficulty>>

\* lines 395-437: the numeric result for each pair of decodable images
ScoreTable ==
  [rows |->
     UNION {{<<args, ScoringResult(ref, sketch, args[3])>> :
               ref \in {Canvas(TARGET_SIZE, TARGET_SIZE, Drawing(args[1]))},
               sketch \in {Canvas(TARGET_SIZE, TARGET_SIZE, Drawing(args[2]))}} :
            args \in {Scored(i) : i \in {j \in CallInputs :
                        Decodable(j.sketch) /\ Decodable(ResolvedReference(j))}}}]

ScoreOf(input) == (CHOOSE row \in ScoreTable.rows : row[1] = Scored(input))[2]

\* the numeric result with the scratch id mixed into the score
NumbersWithId(input, id) ==
  IF id = "id-2"
  THEN [ScoreOf(input) EXCEPT !.score = QInt(0)]
  ELSE ScoreOf(input)

\* lines 403-437: the score and breakdown of an invocation
Numbers(input, id) == ScoreOf(input)

\* heatmap-<id>.png, comparison-<id>.png, overlay-<id>.png
ScratchNames == ScratchFiles \X ScratchIds

\* no file under a name
NoFile == [writer |-> None, reference |-> None, sketch |-> None]

\* every invocation writing under the same three names
ScratchNameShared(kind, id) == <<kind, "id-1">>

\* lines 444-446: heatmapPath, comparisonPath, overlayPath
ScratchName(kind, id) == <<kind, id>>

NamesOf(id) == {ScratchName(kind, id) : kind \in ScratchFiles}

\* the variables of the single-invocation specifications
engine == <<pc, session, buffers, edges, stages, composite, scratch, result>>

\* an invocation that has not been made
Idle ==
  [at |-> "idle", input |-> None, caller |-> None, id |-> None,
   numbers |-> None, outcome |-> None, cause |-> None, handled |-> None,
   unlinkFailed |-> FALSE, interfered |-> FALSE]

\* the MatchResult the room:submit handler builds from a result
MatchResultOf(outcome) ==
  [score |-> outcome.score, rank |-> 0, breakdown |-> outcome.breakdown]

\* the catch block of room:submit: score 0 and a zero breakdown go to the
\* callback only
FallbackResult ==
  [score |-> QInt(0), rank |-> 0,
   breakdown |-> [contourIoU |-> QInt(0), keypointMatch |-> QInt(0),
                  localSimilarity |-> QInt(0), composite |-> QInt(0)]]

\* room:submit recording the fallback result as the player's score
HandledBySubmitRecording(outcome) ==
  IF outcome.ok
  THEN [playerScore |-> <<outcome.score>>, roomResults |-> <<MatchResultOf(outcome)>>,
        callback |-> MatchResultOf(outcome)]
  ELSE [playerScore |-> <<FallbackResult.score>>, roomResults |-> <<FallbackResult>>,
        callback |-> FallbackResult]

\* socketHandler.ts lines 126-171: what room:submit does with the outcome;
\* playerScore is empty while player.score is undefined
HandledBySubmit(outcome) ==
  IF outcome.ok
  THEN [playerScore |-> <<outcome.score>>, roomResults |-> <<MatchResultOf(outcome)>>,
        callback |-> MatchResultOf(outcome)]
  ELSE [playerScore |-> <<>>, roomResults |-> <<>>,
        callback |-> FallbackResult]

\* routes/scoring.ts lines 39-44 and 66-71: the response of the routes
HandledByRoute(outcome) ==
  IF outcome.ok
  THEN [status |-> 200, body |-> outcome]
  ELSE [status |-> 500, body |-> [error |-> "Scoring failed"]]

Handled(caller, outcome) ==
  IF caller = "rest" THEN HandledByRoute(outcome) ELSE HandledBySubmit(outcome)

\* the invocation rejects: nothing after the failing statement runs
Thrown(call, why) ==
  [call EXCEPT !.at = "thrown", !.outcome = [ok |-> FALSE], !.cause = why,
               !.handled = Handled(call.caller, [ok |-> FALSE])]

CallsInit ==
  /\ pc = "calls"
  /\ calls = [c \in CallIds |-> Idle]
  /\ files = [n \in ScratchNames |-> NoFile]
  /\ NoRooms
  /\ reference = "blank" /\ start = "blank" /\ strokes = {}
  /\ difficulty = "easy" /\ previous = None
  /\ scratch = {} /\ result = None
  /\ refGray = None /\ sketchGray = None
  /\ NoStages

\* a caller calls computeScore; it runs to its first await
Invoke ==
  \E c \in CallIds :
  /\ calls[c].at = "idle"
  /\ \E i \in CallInputs, k \in Callers :
       calls' = [calls EXCEPT ![c] =
                   [Idle EXCEPT !.at = "read-reference", !.input = i, !.caller = k]]
  /\ UNCHANGED <<files, engine, roomState>>

\* line 396: await Jimp.read(refAbsPath)
ReadReference ==
  \E c \in CallIds :
  /\ calls[c].at = "read-reference"
  /\ calls' = [calls EXCEPT ![c] =
                 IF Decodable(ResolvedReference(@.input))
                 THEN [@ EXCEPT !.at = "read-sketch"]
                 ELSE Thrown(@, "decode")]
  /\ UNCHANGED <<files, engine, roomState>>

\* line 442: the millisecond clock followed by eleven random base-36
\* digits; no two invocations draw the same value
FreshIds(c) == ScratchIds \ {calls[d].id : d \in CallIds \ {c}}

\* lines 397-442: await Jimp.read(sketchPath), then the stages, the
\* composite and the scratch id, up to the await of generateHeatmap
ReadSketch ==
  \E c \in CallIds :
  /\ calls[c].at = "read-sketch"
  /\ \/ /\ Decodable(calls[c].input.sketch)
        /\ \E id \in FreshIds(c) :
             calls' = [calls EXCEPT ![c] =
                         [@ EXCEPT !.at = "heatmap", !.id = id,
                                   !.numbers = Numbers(calls[c].input, id)]]
     \/ /\ ~Decodable(calls[c].input.sketch)
        /\ calls' = [calls EXCEPT ![c] = Thrown(@, "decode")]
  /\ UNCHANGED <<files, engine, roomState>>

\* the file a generator writes: who wrote it and from which images
Written(c) ==
  [writer |-> c, reference |-> ResolvedReference(calls[c].input),
   sketch |-> calls[c].input.sketch]

\* the name holds a file written by another invocation
Foreign(c, fs, name) == fs[name] # NoFile /\ fs[name].writer # c

\* one of generateHeatmap, generateComparison: the file is written, or
\* the write fails and computeScore rejects
WriteScratch(c, kind, next) ==
  /\ calls[c].at = kind
  /\ LET name == ScratchName(kind, calls[c].id)
     IN  \/ /\ files' = [files EXCEPT ![name] = Written(c)]
            /\ calls' = [calls EXCEPT ![c] =
                           [@ EXCEPT !.at = next,
                                     !.interfered = @ \/ Foreign(c, files, name)]]
         \/ /\ calls' = [calls EXCEPT ![c] = Thrown(@, "write")]
            /\ UNCHANGED files
  /\ UNCHANGED <<engine, roomState>>

\* line 448
WriteHeatmap == \E c \in CallIds : WriteScratch(c, "heatmap", "comparison")

\* line 449
WriteComparison == \E c \in CallIds : WriteScratch(c, "comparison", "overlay")

\* lines 450-455: generateOverlay, then the three readFileSync
WriteOverlay ==
  \E c \in CallIds :
  /\ calls[c].at = "overlay"
  /\ LET id == calls[c].id
         name == ScratchName("overlay", id)
         after == [files EXCEPT ![name] = Written(c)]
     IN  \/ /\ files' = after
            /\ calls' = [calls EXCEPT ![c] =
                 IF \E n \in NamesOf(id) : after[n] = NoFile
                 THEN Thrown([@ EXCEPT !.interfered = @ \/ Foreign(c, files, name)],
                             "read")
                 ELSE [@ EXCEPT
                         !.at = "encode",
                         !.outcome = [ok |-> TRUE,
                                      score |-> calls[c].numbers.score,
                                      breakdown |-> calls[c].numbers.breakdown,
                                      heatmapUrl |-> after[ScratchName("heatmap", id)],
                                      comparisonUrl |-> after[ScratchName("comparison", id)],
                                      overlayUrl |-> after[ScratchName("overlay", id)]],
                         !.interfered =
                            \/ @ \/ Foreign(c, files, name)
                            \/ \E n \in NamesOf(id) : Foreign(c, after, n)]]
         \/ /\ calls' = [calls EXCEPT ![c] = Thrown(@, "write")]
            /\ UNCHANGED files
  /\ UNCHANGED <<engine, roomState>>

\* the names whose unlinkSync succeeds
Unlinked(id, kept) == {ScratchName(kind, id) : kind \in ScratchFiles \ kept}

\* lines 458-481: the two getBufferAsync, then the three unlinkSync (each
\* may fail and is ignored) and the return; the caller handles the result
Finish ==
  \E c \in CallIds :
  /\ calls[c].at = "encode"
  /\ \E kept \in {{}, {"heatmap"}, ScratchFiles} :
       /\ files' = [n \in ScratchNames |->
                      IF n \in Unlinked(calls[c].id, kept)
                      THEN NoFile ELSE files[n]]
       /\ calls' = [calls EXCEPT ![c] =
            [@ EXCEPT
               !.at = "returned",
               !.handled = Handled(calls[c].caller, calls[c].outcome),
               !.unlinkFailed = kept # {},
               !.interfered =
                  @ \/ \E n \in Unlinked(calls[c].id, kept) :
                         Foreign(c, files, n)]]
  /\ UNCHANGED <<engine, roomState>>

CallsNext ==
  \/ Invoke \/ ReadReference \/ ReadSketch
  \/ WriteHeatmap \/ WriteComparison \/ WriteOverlay
  \/ Finish

SpecCalls == CallsInit /\ [][CallsNext]_vars

\* the invocation has ended
Ended(c) == calls[c].at \in {"returned", "thrown"}

\* one of the two images of the invocation does not decode
Undecodable(c) ==
  \/ ~Decodable(calls[c].input.sketch)
  \/ ~Decodable(ResolvedReference(calls[c].input))

\* C14: an invocation whose submission or reference cannot be decoded never
\* gets past the two Jimp.read; it throws, its outcome carries no score and
\* no breakdown, a REST route answers it with status 500 and a body without
\* score, and room:submit sets no player.score and pushes no match result.
C14_DecodeFailureFailsWhole ==
  \A c \in CallIds :
    (calls[c].at # "idle" /\ Undecodable(c)) =>
      /\ calls[c].at \in {"read-reference", "read-sketch", "thrown"}
      /\ calls[c].at = "thrown" =>
            /\ calls[c].cause = "decode"
            /\ DOMAIN calls[c].outcome = {"ok"}
            /\ ~calls[c].outcome.ok
            /\ calls[c].caller = "rest" =>
                  /\ calls[c].handled.status = 500
                  /\ DOMAIN calls[c].handled.body = {"error"}
            /\ calls[c].caller = "socket" =>
                  /\ calls[c].handled.playerScore = <<>>
                  /\ calls[c].handled.roomResults = <<>>

\* a route and a room:submit handler have both had an undecodable image
\* thrown at them, one for the submission and one for the reference
C14_Witness ==
  /\ calls["first"].at = "thrown" /\ calls["second"].at = "thrown"
  /\ calls["first"].caller = "rest" /\ calls["second"].caller = "socket"
  /\ calls["first"].input.reference = "corrupt"
  /\ calls["second"].input.sketch = "corrupt"

\* C15: when an invocation has ended and none of its deletions failed, no
\* file it wrote is left under uploads/results, whether it returned or threw.
C15_NoScratchOutlives ==
  \A c \in CallIds :
    (Ended(c) /\ ~calls[c].unlinkFailed) =>
      \A n \in ScratchNames : files[n].writer # c

AloneOutcome(c) ==
  [ok |-> TRUE,
   score |-> ScoreOf(calls[c].input).score,
   breakdown |-> ScoreOf(calls[c].input).breakdown,
   heatmapUrl |-> Written(c), comparisonUrl |-> Written(c),
   overlayUrl |-> Written(c)]

\* the invocation has drawn its scratch id
HasId(c) == calls[c].at \in {"heatmap", "comparison", "overlay", "encode", "returned"}
            \/ (calls[c].at = "thrown" /\ calls[c].cause # "decode")

\* the invocation touched no file of the other one, did not fail reading
\* its own files back, and what it returned is what it returns alone
Undisturbed(c) ==
  /\ ~calls[c].interfered
  /\ calls[c].at = "thrown" => calls[c].cause # "read"
  /\ calls[c].at \in {"encode", "returned"} => calls[c].outcome = AloneOutcome(c)

Sockets == {"s1", "s2", "s3"}

\* scores computeScore returns to room:submit
Scores == {40, 90}

\* Date.now() - room.startedAt at the submissions of a match
Times == 1 .. 2

\* the room:start-match requests followed in one behaviour
Starts == 1 .. 2

\* the accepted room:submit requests followed in one behaviour
Submissions == 1 .. 3

\* settings.maxPlayers of a match that is played; 0 stands for a missing
\* or falsy value
MatchRequests == {3}

\* settings.maxPlayers as any client may send it
LobbyRequests == {0 - 1, 0, 1, 2, 6, 7, 100}

\* the requested size taken as it comes
MaxPlayersOfUnclamped(requested) == IF requested = 0 THEN 6 ELSE requested

\* line 36: Math.min(settings.maxPlayers || 6, 6)
MaxPlayersOf(requested) ==
  MinInt(IF requested = 0 THEN 6 ELSE requested, 6)

\* lines 30-35 and 68-73
NewPlayer(s) ==
  [id |-> s, connected |-> TRUE, hasSubmitted |-> FALSE,
   score |-> <<>>, submissionTime |-> <<>>]

\* room.results is undefined until the first result is pushed
NoResults == [defined |-> FALSE, list |-> <<>>]

\* no room:create has been handled
NoRoom ==
  [exists |-> FALSE, inMap |-> FALSE, hostId |-> None, players |-> <<>>,
   maxPlayers |-> 0, state |-> "lobby", results |-> NoResults]

\* lines 117 and 274: room.players.find(p => p.id === socket.id), as an
\* index into room.players, 0 when there is none
FindPlayer(players, s) ==
  IF \E i \in 1 .. Len(players) : players[i].id = s
  THEN CHOOSE i \in 1 .. Len(players) :
         /\ players[i].id = s
         /\ \A j \in 1 .. i - 1 : players[j].id # s
  ELSE 0

\* lines 174 and 297
AllSubmitted(players) ==
  \A i \in 1 .. Len(players) : players[i].hasSubmitted \/ ~players[i].connected

\* lines 251-254: the comparator; a difference with an undefined
\* submissionTime is NaN, which Array.prototype.sort takes as 0
CompareResults(a, b) ==
  IF b.score # a.score THEN b.score - a.score
  ELSE IF a.submissionTime = <<>> \/ b.submissionTime = <<>> THEN 0
  ELSE a.submissionTime[1] - b.submissionTime[1]

\* Array.prototype.sort on a short array: the length of the initial run
RunIsDescending(a) == CompareResults(a[2], a[1]) < 0

RunContinues(a, idx) ==
  IF RunIsDescending(a) THEN CompareResults(a[idx], a[idx - 1]) < 0
  ELSE CompareResults(a[idx], a[idx - 1]) >= 0

RunLength(a) ==
  IF Len(a) < 2 THEN Len(a)
  ELSE CHOOSE k \in 2 .. Len(a) :
         /\ \A idx \in 3 .. k : RunContinues(a, idx)
         /\ k = Len(a) \/ ~RunContinues(a, k + 1)

\* a strictly descending initial run is reversed in place
MakeAscending(a) ==
  IF Len(a) >= 2 /\ RunIsDescending(a)
  THEN [i \in 1 .. Len(a) |->
          IF i <= RunLength(a) THEN a[RunLength(a) + 1 - i] ELSE a[i]]
  ELSE a

\* where the pivot goes among a[left .. right - 1]
RECURSIVE InsertionPoint(_, _, _, _)
InsertionPoint(a, pivot, left, right) ==
  IF left >= right THEN left
  ELSE LET mid == left + ((right - left) \div 2)
       IN  IF CompareResults(pivot, a[mid]) < 0
           THEN InsertionPoint(a, pivot, left, mid)
           ELSE InsertionPoint(a, pivot, mid + 1, right)

\* binary insertion of a[from], a[from + 1], ... into the sorted prefix
RECURSIVE BinaryInsertionSort(_, _)
BinaryInsertionSort(a, from) ==
  IF from > Len(a) THEN a
  ELSE LET at == InsertionPoint(a, a[from], 1, from)
       IN  BinaryInsertionSort(
             [i \in 1 .. Len(a) |->
                IF i < at \/ i > from THEN a[i]
                ELSE IF i = at THEN a[from]
                ELSE a[i - 1]],
             from + 1)

\* the sort with the comparison reversed
SortResultsAscending(list) ==
  [i \in 1 .. Len(list) |->
     BinaryInsertionSort(MakeAscending(list), RunLength(list) + 1)[Len(list) + 1 - i]]

\* lines 251-254: room.results.sort(...)
SortResults(list) ==
  BinaryInsertionSort(MakeAscending(list), RunLength(list) + 1)

\* lines 257-259
AssignRanks(list) == [i \in 1 .. Len(list) |-> [list[i] EXCEPT !.rank = i]]

\* lines 246-265: endMatch, the room after it
EndMatch(r) ==
  [r EXCEPT !.state = "results",
            !.results = IF r.results.defined
                        THEN [defined |-> TRUE,
                              list |-> AssignRanks(SortResults(r.results.list))]
                        ELSE r.results]

\* line 261: what the room has been sent after endMatch ran on r
Emit(r) ==
  IF r.results.defined
  THEN [sent |-> TRUE, list |-> EndMatch(r).results.list]
  ELSE emitted

RoomInit ==
  /\ pc = "room"
  /\ room = NoRoom
  /\ sockets = [playerRooms |-> {}, gone |-> {}]
  /\ pending = [countdowns |-> <<>>, starting |-> 0, autoEnd |-> 0,
                scorings |-> [s \in Sockets |-> 0], started |-> 0,
                submits |-> 0, clock |-> 0]
  /\ emitted = [sent |-> FALSE, list |-> <<>>]
  /\ calls = None /\ files = None
  /\ reference = "blank" /\ start = "blank" /\ strokes = {}
  /\ difficulty = "easy" /\ previous = None
  /\ scratch = {} /\ result = None
  /\ refGray = None /\ sketchGray = None
  /\ NoStages

\* what the room handlers leave alone
scoring == <<calls, files, engine>>

\* lines 25-46: room:create
CreateRoom(s, requested) ==
  /\ s \notin sockets.gone
  /\ ~room.exists
  /\ room' = [exists |-> TRUE, inMap |-> TRUE, hostId |-> s,
              players |-> <<NewPlayer(s)>>,
              maxPlayers |-> MaxPlayersOf(requested),
              state |-> "lobby", results |-> NoResults]
  /\ sockets' = [sockets EXCEPT !.playerRooms = @ \cup {s}]
  /\ UNCHANGED <<pending, emitted, scoring>>

\* lines 49-83: room:join
JoinRoom(s) ==
  /\ s \notin sockets.gone
  /\ room.inMap
  /\ room.state = "lobby"
  /\ ~(Len(room.players) >= (IF room.maxPlayers = 0 THEN 6 ELSE room.maxPlayers))
  /\ room' = [room EXCEPT !.players = Append(@, NewPlayer(s))]
  /\ sockets' = [sockets EXCEPT !.playerRooms = @ \cup {s}]
  /\ UNCHANGED <<pending, emitted, scoring>>

\* lines 86-107: room:start-match, up to the first tick of the interval
StartMatchRequest(s) ==
  /\ s \notin sockets.gone
  /\ s \in sockets.playerRooms
  /\ room.inMap
  /\ room.hostId = s
  /\ room.state = "lobby"
  /\ pending.started + 1 \in Starts
  /\ room' = [room EXCEPT !.state = "countdown"]
  /\ pending' = [pending EXCEPT !.countdowns = Append(@, 3), !.started = @ + 1]
  /\ UNCHANGED <<sockets, emitted, scoring>>

\* lines 98-106: one tick of a countdown interval; the last one clears the
\* interval and calls startMatch, which runs to its await (line 220)
CountdownTick ==
  \E i \in 1 .. Len(pending.countdowns) :
    /\ pending' =
         IF pending.countdowns[i] - 1 < 0
         THEN [pending EXCEPT
                 !.countdowns = [j \in 1 .. Len(@) - 1 |->
                                   IF j < i THEN @[j] ELSE @[j + 1]],
                 !.starting = @ + 1]
         ELSE [pending EXCEPT !.countdowns[i] = @ - 1]
    /\ UNCHANGED <<room, sockets, emitted, scoring>>

\* lines 221-243: startMatch after generateReferenceImage has settled
StartMatchResume ==
  /\ pending.starting > 0
  /\ room' = [room EXCEPT !.state = "playing"]
  /\ pending' = [pending EXCEPT !.starting = @ - 1, !.autoEnd = @ + 1,
                                !.clock = 0]
  /\ UNCHANGED <<sockets, emitted, scoring>>

\* lines 239-243: an auto-end timeout fires
AutoEnd ==
  /\ pending.autoEnd > 0
  /\ pending' = [pending EXCEPT !.autoEnd = @ - 1]
  /\ IF room.state = "playing"
     THEN room' = EndMatch(room) /\ emitted' = Emit(room)
     ELSE UNCHANGED <<room, emitted>>
  /\ UNCHANGED <<sockets, scoring>>

\* lines 110-140: room:submit up to the await of computeScore; the handler
\* holds on to the player it found
Submit(s, t) ==
  /\ s \notin sockets.gone
  /\ s \in sockets.playerRooms
  /\ room.inMap
  /\ room.state = "playing"
  /\ FindPlayer(room.players, s) # 0
  /\ ~room.players[FindPlayer(room.players, s)].hasSubmitted
  /\ t >= pending.clock
  /\ pending.submits + 1 \in Submissions
  /\ room' = [room EXCEPT
                !.players[FindPlayer(room.players, s)] =
                   [@ EXCEPT !.hasSubmitted = TRUE, !.submissionTime = <<t>>]]
  /\ pending' = [pending EXCEPT
                   !.scorings[s] = @ + 1,
                   !.submits = @ + 1,
                   !.clock = t]
  /\ UNCHANGED <<sockets, emitted, scoring>>

\* lines 173-177: the check room:submit ends with
AfterSubmit(r) ==
  /\ room' = IF AllSubmitted(r.players) THEN EndMatch(r) ELSE r
  /\ emitted' = IF AllSubmitted(r.players) THEN Emit(r) ELSE emitted

\* lines 140-159 and 173-177: computeScore resolves with score v
ScoringSucceeds(s, v) ==
  /\ pending.scorings[s] > 0
  /\ pending' = [pending EXCEPT !.scorings[s] = @ - 1]
  /\ AfterSubmit([room EXCEPT
       !.players[FindPlayer(room.players, s)].score = <<v>>,
       !.results =
          [defined |-> TRUE,
           list |-> Append(room.results.list,
                           [playerId |-> s, score |-> v, rank |-> 0,
                            submissionTime |->
                              room.players[FindPlayer(room.players, s)].submissionTime])]])
  /\ UNCHANGED <<sockets, scoring>>

\* lines 160-177: computeScore (or writing the upload) throws
ScoringFails(s) ==
  /\ pending.scorings[s] > 0
  /\ pending' = [pending EXCEPT !.scorings[s] = @ - 1]
  /\ AfterSubmit(room)
  /\ UNCHANGED <<sockets, scoring>>

\* the leave that keeps the host where it was
LeftKeepingHost(r, s) ==
  LET idx == FindPlayer(r.players, s)
      players == IF idx = 0 THEN r.players
                 ELSE [r.players EXCEPT ![idx].connected = FALSE]
  IN  IF \A i \in 1 .. Len(players) : ~players[i].connected
      THEN [r EXCEPT !.players = players, !.inMap = FALSE]
      ELSE [r EXCEPT !.players = players]

\* lines 274-292: the room once the player has been marked and the host
\* moved on
Left(r, s) ==
  LET idx == FindPlayer(r.players, s)
      players == IF idx = 0 THEN r.players
                 ELSE [r.players EXCEPT ![idx].connected = FALSE]
      connectedPlayers == {i \in 1 .. Len(players) : players[i].connected}
      first == CHOOSE i \in connectedPlayers : \A j \in connectedPlayers : i <= j
  IN  IF connectedPlayers = {}
      THEN [r EXCEPT !.players = players, !.inMap = FALSE]
      ELSE [r EXCEPT !.players = players,
                     !.hostId = IF @ = s THEN players[first].id ELSE @]

\* lines 267-301: handlePlayerLeave past its two early returns
HandlePlayerLeave(s) ==
  /\ s \in sockets.playerRooms
  /\ room.inMap
  /\ LET r == Left(room, s)
         ends == r.inMap /\ r.state = "playing" /\ AllSubmitted(r.players)
     IN  /\ room' = IF ends THEN EndMatch(r) ELSE r
         /\ emitted' = IF ends THEN Emit(r) ELSE emitted

\* lines 181-183: room:leave
LeaveRoom(s) ==
  /\ s \notin sockets.gone
  /\ HandlePlayerLeave(s)
  /\ sockets' = [sockets EXCEPT !.playerRooms = @ \ {s}]
  /\ UNCHANGED <<pending, scoring>>

\* lines 209-212: disconnect
Disconnect(s) ==
  /\ s \notin sockets.gone
  /\ IF s \in sockets.playerRooms /\ room.inMap
     THEN HandlePlayerLeave(s)
     ELSE UNCHANGED <<room, emitted>>
  /\ sockets' = [playerRooms |-> IF room.inMap THEN sockets.playerRooms \ {s}
                                 ELSE sockets.playerRooms,
                 gone |-> sockets.gone \cup {s}]
  /\ UNCHANGED <<pending, scoring>>

\* the rematch that any socket of the room may ask for
RematchByAnyone(s) ==
  /\ s \notin sockets.gone
  /\ s \in sockets.playerRooms
  /\ room.inMap
  /\ room' = [room EXCEPT
                !.state = "lobby",
                !.results = [defined |-> TRUE, list |-> <<>>],
                !.players = [i \in 1 .. Len(@) |->
                               [@[i] EXCEPT !.hasSubmitted = FALSE,
                                            !.score = <<>>,
                                            !.submissionTime = <<>>]]]
  /\ UNCHANGED <<sockets, pending, emitted, scoring>>

\* lines 186-206: room:rematch
Rematch(s) ==
  /\ s \notin sockets.gone
  /\ s \in sockets.playerRooms
  /\ room.inMap
  /\ room.hostId = s
  /\ room' = [room EXCEPT
                !.state = "lobby",
                !.results = [defined |-> TRUE, list |-> <<>>],
                !.players = [i \in 1 .. Len(@) |->
                               [@[i] EXCEPT !.hasSubmitted = FALSE,
                                            !.score = <<>>,
                                            !.submissionTime = <<>>]]]
  /\ UNCHANGED <<sockets, pending, emitted, scoring>>

\* nobody has left the room or disconnected
NobodyLeft ==
  /\ sockets.gone = {}
  /\ \A i \in 1 .. Len(room.players) : room.players[i].connected

\* clients that play: one room:create with a small room, no room:join from
\* a socket that is or was in the room, one player at most leaving (by
\* closing the connection), and room:rematch from the results screen
Create == \E s \in Sockets, requested \in MatchRequests : CreateRoom(s, requested)
Join == \E s \in Sockets : FindPlayer(room.players, s) = 0 /\ JoinRoom(s)
StartMatch == \E s \in Sockets : StartMatchRequest(s)
SubmitSketch == \E s \in Sockets, t \in Times : Submit(s, t)
ScoringDone == \E s \in Sockets, v \in Scores : ScoringSucceeds(s, v)
ScoringFailed == \E s \in Sockets : ScoringFails(s)
Disconnected == \E s \in Sockets : NobodyLeft /\ Disconnect(s)
RematchRequest == \E s \in Sockets : room.state = "results" /\ Rematch(s)

RoomNext ==
  \/ Create \/ Join \/ StartMatch \/ CountdownTick \/ StartMatchResume
  \/ AutoEnd \/ SubmitSketch \/ ScoringDone \/ ScoringFailed
  \/ Disconnected \/ RematchRequest

SpecRoom == RoomInit /\ [][RoomNext]_vars

\* any client: every settings.maxPlayers, and room:join from any socket
CreateAny == \E s \in Sockets, requested \in LobbyRequests : CreateRoom(s, requested)
JoinAny == \E s \in Sockets : JoinRoom(s)
LeaveAny == \E s \in Sockets : LeaveRoom(s)
DisconnectAny == \E s \in Sockets : Disconnect(s)

LobbyNext == CreateAny \/ JoinAny \/ LeaveAny \/ DisconnectAny

SpecLobby == RoomInit /\ [][LobbyNext]_vars

\* the players of the room that a results list names
Listed(list) == {list[i].playerId : i \in 1 .. Len(list)}

\* C18: once a match is over and no scoring is running any more, every
\* player whose room:submit was accepted is in the room:results the room
\* was sent.
C18_AcceptedSubmissionsAppear ==
  (room.state = "results" /\ \A s \in Sockets : pending.scorings[s] = 0) =>
    \A i \in 1 .. Len(room.players) :
      room.players[i].hasSubmitted =>
        emitted.sent /\ room.players[i].id \in Listed(emitted.list)

\* ranks are the positions
RankedInOrder(list) == \A i \in 1 .. Len(list) : list[i].rank = i

ByScoreDescending(list) ==
  \A i, j \in 1 .. Len(list) : i < j => list[i].score >= list[j].score

\* among equal scores, the earlier submission comes first; a result without
\* submission time is left out of the comparison
TiesBySubmissionTime(list) ==
  \A i, j \in 1 .. Len(list) :
    ( /\ i < j
      /\ list[i].score = list[j].score
      /\ list[i].submissionTime # <<>>
      /\ list[j].submissionTime # <<>> ) =>
        list[i].submissionTime[1] <= list[j].submissionTime[1]

AllTimed(list) == \A i \in 1 .. Len(list) : list[i].submissionTime # <<>>

C20_AtMostSixPlayers == Len(room.players) <= 6

\* six players are in, one of them has left, and a seventh join is refused
C20_Witness ==
  /\ Len(room.players) = 6
  /\ \E i \in 1 .. 6 : ~room.players[i].connected
  /\ room.inMap /\ room.state = "lobby"
  /\ \A s \in Sockets : ~ENABLED JoinRoom(s)

(***************************************************************************)
(* Any client in any state of the room: every event of the protocol from   *)
(* every socket, whatever the state of the room, next to the timers and    *)
(* the scoring completions.                                                *)
(***************************************************************************)

\* the one score and the one submission time of these behaviours
EventScores == {40}
EventTimes == {1}
EventSockets == {"s1", "s2"}
CreateEvent == \E s \in EventSockets, requested \in MatchRequests : CreateRoom(s, requested)
JoinEvent == \E s \in EventSockets : JoinRoom(s)
LeaveEvent == \E s \in EventSockets : LeaveRoom(s)
DisconnectEvent == \E s \in EventSockets : Disconnect(s)

StartMatchAny == \E s \in EventSockets : StartMatchRequest(s)
SubmitAny == \E s \in EventSockets, t \in EventTimes : Submit(s, t)
ScoringDoneAny == \E s \in Sockets, v \in EventScores : ScoringSucceeds(s, v)
RematchAny == \E s \in EventSockets : Rematch(s)

EventsNext ==
  \/ CreateEvent \/ JoinEvent \/ StartMatchAny \/ CountdownTick \/ StartMatchResume
  \/ AutoEnd \/ SubmitAny \/ ScoringDoneAny \/ ScoringFailed
  \/ LeaveEvent \/ DisconnectEvent \/ RematchAny

SpecEvents == RoomInit /\ [][EventsNext]_vars

\* a socket that is in the room and still open
InRoom(s) == s \in sockets.playerRooms /\ s \notin sockets.gone

\* C21: room:start-match and room:rematch from a socket that is not the
\* host take their early return, which leaves the room as it is, and so does
\* room:start-match from anyone while the room is not in 'lobby'.
C21_HostOnly ==
  /\ \A s \in Sockets :
       s # room.hostId => ~ENABLED StartMatchRequest(s) /\ ~ENABLED Rematch(s)
  /\ room.state # "lobby" => \A s \in Sockets : ~ENABLED StartMatchRequest(s)

\* the host role has moved on to the second socket, the first one is back in
\* the room as a plain player, a match is being played, and only the host's
\* room:rematch would be heard
C21_Witness ==
  /\ room.inMap /\ room.state = "playing"
  /\ room.hostId = "s2" /\ InRoom("s2") /\ InRoom("s1")
  /\ ENABLED Rematch("s2")
  /\ ~ENABLED Rematch("s1")
  /\ ~ENABLED StartMatchRequest("s2")

\* C22: while the room is in the rooms map, its state changes to 'countdown'
\* only from 'lobby', to 'playing' only from 'countdown' and to 'results'
\* only from 'playing'.
C22_StateOrder ==
  [][ (room'.inMap /\ room'.state # room.state) =>
        /\ room'.state = "countdown" => room.state = "lobby"
        /\ room'.state = "playing" => room.state = "countdown"
        /\ room'.state = "results" => room.state = "playing" ]_vars

\* the matches whose startMatch has armed its timer
MatchesBegun == pending.started - Len(pending.countdowns) - pending.starting

\* the match whose timer fires next: the timers have the same delay and
\* fire in the order they were armed
TimerDue == MatchesBegun - pending.autoEnd + 1

\* C23: a timer moves a match from 'playing' to 'results' only if it was
\* armed at the start of that match.
C23_TimerEndsOwnMatch ==
  [][ (AutoEnd /\ room.state = "playing") => TimerDue = MatchesBegun ]_vars

\* C24: whenever endMatch has run, room:results has been emitted to the room.
C24_EndAnnounced == room.state = "results" => emitted.sent

\* C25: room.results names a player once at most, and only players who have
\* submitted in the current match.
C25_OnlyCurrentResults ==
  /\ \A i, j \in 1 .. Len(room.results.list) :
       i < j => room.results.list[i].playerId # room.results.list[j].playerId
  /\ \A i \in 1 .. Len(room.results.list) :
       room.players[FindPlayer(room.players, room.results.list[i].playerId)].hasSubmitted

====
